---------------------------- MODULE Spec2Model ----------------------------
(***************************************************************************)
(* Model of the TinkerCAD -> ThingsBoard bridge.                           *)
(*                                                                         *)
(*   src/src/data_processor.py      DataProcessor   (stream record         *)
(*                                                   extractor)            *)
(*   src/src/browser_automation.py  SerialMonitor   (delta tracking)       *)
(*   src/src/main.py                RateLimiter, run_bridge main loop      *)
(*   src/src/thingsboard_client.py  ThingsBoardClient (telemetry sink)     *)
(*                                                                         *)
(* Text is a sequence of one-character strings.  Time is a natural number  *)
(* of clock ticks.                                                         *)
(***************************************************************************)
EXTENDS Naturals, Integers, Sequences, FiniteSets, TLC

VARIABLES
    \* ---- DataProcessor (data_processor.py) ----
    buffer,          \* self.buffer
    total_received,  \* self.total_received
    total_parsed,    \* self.total_parsed
    total_invalid,   \* self.total_invalid
    \* ---- the serial text the extractor is fed, and what was observed ----
    doc,             \* the pieces of text the device prints, in order
    fed,             \* how many characters of the text were passed to add_chunk
    cleared,         \* whether clear_buffer was ever called
    emitted,         \* concatenation of every list add_chunk returned
    call,            \* the most recent DataProcessor call and what it returned
    prevCall,        \* the call before the most recent one: its operation and
                     \* whether the buffer held text when it was made
    \* ---- SerialMonitor (browser_automation.py) and the poll of run_bridge ----
    screen,          \* the text the serial monitor widget shows
    last_text_length,\* self.last_text_length
    total_reads,     \* self.total_reads
    new_content,     \* new_content of the main loop, from the latest poll
    json_objects,    \* json_objects of the main loop, from the latest poll
    restarts,        \* number of restarts of the simulation so far
    residue,         \* how many leading characters of the buffer were read
                     \* before the latest detected discontinuity
    fedResidue,      \* residue when add_chunk was last called by the loop
    \* ---- RateLimiter (main.py) ----
    clock,           \* time.time()
    min_interval,    \* self.min_interval
    rl_last_send_time, \* RateLimiter.last_send_time
    now,             \* now of wait_if_needed
    wait_time,       \* wait_time of wait_if_needed
    \* ---- ThingsBoardClient (thingsboard_client.py) ----
    total_sent,      \* self.total_sent
    total_failed,    \* self.total_failed
    last_send_time,  \* ThingsBoardClient.last_send_time (None until set)
    \* ---- the send loop of run_bridge (main.py) ----
    pc,              \* where the loop stands
    pending,         \* records of json_objects still to be sent in this tick
    success,         \* success of the main loop
    message_count,   \* message_count of the main loop
    \* ---- what was observed of the send loop ----
    throttle,        \* the wait_if_needed calls so far (see NoThrottle)
    sending,         \* the send_telemetry calls so far (see NoSending)
    \* ---- run_bridge and main (main.py) around the loop ----
    startup,         \* how each startup step of run_bridge ended
    cause,           \* what ended the main loop: "none", "interrupt", "exception"
    signal,          \* where the loop stood when KeyboardInterrupt arrived
    polls,           \* get_new_content calls made by the loop
    worked,          \* add_chunk calls and stream send_telemetry calls begun
    tickLog,         \* the calls made for the records of the current tick
    shutdown,        \* what was printed and closed after the loop, in order
    result,          \* what run_bridge returned: "none", "True", "False"
    exit_code,       \* exit_code of main (None until set)
    \* ---- calls made on a component by any caller ----
    stats,           \* what the latest get_stats call returned
    counters,        \* the counters before the latest call
    track            \* what get_new_content read and returned so far

extractorVars == <<buffer, total_received, total_parsed, total_invalid>>
feedVars == <<doc, fed, cleared, emitted, call, prevCall>>
monitorVars == <<screen, last_text_length, total_reads, new_content,
                 json_objects, restarts, residue, fedResidue>>
limiterVars == <<clock, min_interval, rl_last_send_time, now, wait_time>>
clientVars == <<total_sent, total_failed, last_send_time>>
loopVars == <<pc, pending, success, message_count, throttle, sending>>
deliveryVars == <<limiterVars, clientVars, loopVars>>
runVars == <<startup, cause, signal, polls, worked, tickLog, shutdown, result,
             exit_code>>
callVars == <<stats, counters, track>>
vars == <<extractorVars, feedVars, monitorVars, deliveryVars, runVars, callVars>>

-----------------------------------------------------------------------------
(* Bounds of the model *)

\* number of pieces of text the device prints
MaxPieces == 2
\* longest chunk passed to one add_chunk call
MaxChunk == 3
\* number of successful reads of the serial monitor
MaxReads == 3
\* number of restarts of the simulation
MaxRestarts == 1
\* clock ticks in one second
TicksPerSecond == 2
\* the clock is followed up to this tick
MaxClock == 6
\* records one poll hands to the send loop
MaxRecords == 2
\* records handed to the send loop in all
MaxSends == 3
\* send_telemetry and test_connection calls made on a client by any caller
MaxClientCalls == 2

-----------------------------------------------------------------------------
(* Text *)

LB == "{"
RB == "}"
QT == "\""
COLON == ":"
COMMA == ","
ONE == "1"
CR == "\r"
LF == "\n"

Max(a, b) == IF a >= b THEN a ELSE b

RECURSIVE Flatten(_)
Flatten(ss) == IF ss = <<>> THEN <<>> ELSE Head(ss) \o Flatten(Tail(ss))

\* s[i:] of Python, for a 0-based offset i
Slice(s, i) == SubSeq(s, i + 1, Len(s))

\* least index >= from at which character c occurs in s; 0 when there is none
RECURSIVE IndexOf(_, _, _)
IndexOf(s, c, from) ==
    IF from > Len(s) THEN 0
    ELSE IF s[from] = c THEN from
    ELSE IndexOf(s, c, from + 1)

-----------------------------------------------------------------------------
(* json.loads, on the characters { } " : , 1                               *)
(*   value  ::= object | string | number                                   *)
(*   object ::= "{" "}" | "{" member ("," member)* "}"                     *)
(*   member ::= string ":" value                                           *)
(*   string ::= '"' (any character but '"')* '"'                           *)
(*   number ::= "1"+                                                       *)
(* A parsed value is [t, s, m]: t its type, s the characters of a string   *)
(* or number, m the (key, value) pairs of an object in insertion order,    *)
(* a repeated key keeping its place and taking the later value (a Python   *)
(* dict).                                                                  *)

NoVal == [t |-> "none", s |-> <<>>, m |-> <<>>]
Fail == [ok |-> FALSE, val |-> NoVal, next |-> 0]
Num(cs) == [t |-> "num", s |-> cs, m |-> <<>>]
Str(cs) == [t |-> "str", s |-> cs, m |-> <<>>]
Obj(ps) == [t |-> "obj", s |-> <<>>, m |-> ps]

DictPut(m, k, v) ==
    IF \E i \in 1..Len(m) : m[i][1] = k
    THEN [i \in 1..Len(m) |-> IF m[i][1] = k THEN <<k, v>> ELSE m[i]]
    ELSE Append(m, <<k, v>>)

ParseString(s, i) ==
    IF i > Len(s) \/ s[i] # QT THEN Fail
    ELSE LET j == IndexOf(s, QT, i + 1)
         IN IF j = 0 THEN Fail
            ELSE [ok |-> TRUE, val |-> Str(SubSeq(s, i + 1, j - 1)), next |-> j + 1]

RECURSIVE NumberEnd(_, _)
NumberEnd(s, i) == IF i <= Len(s) /\ s[i] = ONE THEN NumberEnd(s, i + 1) ELSE i

ParseNumber(s, i) ==
    LET j == NumberEnd(s, i)
    IN IF j = i THEN Fail
       ELSE [ok |-> TRUE, val |-> Num(SubSeq(s, i, j - 1)), next |-> j]

RECURSIVE ParseValue(_, _)
RECURSIVE ParseMembers(_, _, _)

ParseMembers(s, i, m) ==
    LET k == ParseString(s, i)
    IN IF ~k.ok \/ k.next > Len(s) \/ s[k.next] # COLON THEN Fail
       ELSE LET v == ParseValue(s, k.next + 1)
            IN IF ~v.ok \/ v.next > Len(s) THEN Fail
               ELSE LET m2 == DictPut(m, k.val.s, v.val)
                    IN IF s[v.next] = COMMA THEN ParseMembers(s, v.next + 1, m2)
                       ELSE IF s[v.next] = RB
                            THEN [ok |-> TRUE, val |-> Obj(m2), next |-> v.next + 1]
                       ELSE Fail

ParseValue(s, i) ==
    IF i > Len(s) THEN Fail
    ELSE IF s[i] = LB
         THEN IF i + 1 <= Len(s) /\ s[i + 1] = RB
              THEN [ok |-> TRUE, val |-> Obj(<<>>), next |-> i + 2]
              ELSE ParseMembers(s, i + 1, <<>>)
    ELSE IF s[i] = QT THEN ParseString(s, i)
    ELSE ParseNumber(s, i)

\* json.loads(text): the whole text must be one value; a JSONDecodeError is ~ok
JsonLoads(text) ==
    LET r == ParseValue(text, 1)
    IN IF r.ok /\ r.next = Len(text) + 1 THEN r ELSE Fail


-----------------------------------------------------------------------------
(* DataProcessor *)

\* the greedy pattern \{.*\}: one match, from the first "{" to the last "}"
FindIter_Greedy(s, pos) ==
    LET i == IndexOf(s, LB, pos)
        closing == {j \in 1..Len(s) : j > i /\ s[j] = RB}
    IN IF i = 0 \/ closing = {} THEN <<>>
       ELSE <<[start |-> i, end |-> CHOOSE j \in closing : \A l \in closing : l <= j]>>

\* JSON_PATTERN.finditer(s) from index pos on: the non-overlapping matches of
\* \{.*?\} (DOTALL), left to right.  A match starts at the first "{" and ends
\* at the nearest "}" after it; the scan goes on after that "}".
RECURSIVE FindIter(_, _)
FindIter(s, pos) ==
    LET i == IndexOf(s, LB, pos)
        j == IF i = 0 THEN 0 ELSE IndexOf(s, RB, i + 1)
    IN IF j = 0 THEN <<>>
       ELSE <<[start |-> i, end |-> j]>> \o FindIter(s, j + 1)

\* match.group()
Group(s, match) == SubSeq(s, match.start, match.end)

\* _parse_json without the "at least one key" test of line 87
_parse_json_AcceptsEmpty(text) ==
    LET data == JsonLoads(text)
    IN IF ~data.ok THEN NoVal
       ELSE IF data.val.t # "obj" THEN NoVal
       ELSE data.val

\* DataProcessor._parse_json: the dict, or NoVal for Python's None
_parse_json(text) ==
    LET data == JsonLoads(text)
    IN IF ~data.ok THEN NoVal                 \* json.JSONDecodeError
       ELSE IF data.val.t # "obj" THEN NoVal  \* not isinstance(data, dict)
       ELSE IF data.val.m = <<>> THEN NoVal   \* not data
       ELSE data.val

\* the for loop of add_chunk counting a span as received only when it is
\* accepted
RECURSIVE ProcessMatches_CountsAccepted(_, _, _)
ProcessMatches_CountsAccepted(s, matches, st) ==
    IF matches = <<>> THEN st
    ELSE LET candidate == Group(s, Head(matches))
             parsed == _parse_json(candidate)
             st2 == IF parsed # NoVal
                    THEN [st EXCEPT !.received = @ + 1,
                                    !.valid_objects = Append(@, parsed),
                                    !.parsed = @ + 1]
                    ELSE [st EXCEPT !.invalid = @ + 1]
         IN ProcessMatches_CountsAccepted(s, Tail(matches), st2)

\* the for loop of add_chunk over the matches, from the counters and list st
RECURSIVE ProcessMatches(_, _, _)
ProcessMatches(s, matches, st) ==
    IF matches = <<>> THEN st
    ELSE LET candidate == Group(s, Head(matches))
             parsed == _parse_json(candidate)
             st2 == IF parsed # NoVal
                    THEN [st EXCEPT !.received = @ + 1,
                                    !.valid_objects = Append(@, parsed),
                                    !.parsed = @ + 1]
                    ELSE [st EXCEPT !.received = @ + 1,
                                    !.invalid = @ + 1]
         IN ProcessMatches(s, Tail(matches), st2)

\* add_chunk losing the unmatched text when no span is found
add_chunk_DropsUnmatched(st, text) ==
    LET buf == st.buffer \o text
        matches == FindIter(buf, 1)
        st0 == [buffer |-> buf, received |-> st.received, parsed |-> st.parsed,
                invalid |-> st.invalid, valid_objects |-> <<>>]
    IN IF matches # <<>>
       THEN [ProcessMatches(buf, matches, st0) EXCEPT
                !.buffer = Slice(buf, matches[Len(matches)].end)]
       ELSE [st0 EXCEPT !.buffer = <<>>]

\* add_chunk cutting the buffer after the first match (matches[0].end())
add_chunk_TrimsAtFirst(st, text) ==
    LET buf == st.buffer \o text
        matches == FindIter(buf, 1)
        st0 == [buffer |-> buf, received |-> st.received, parsed |-> st.parsed,
                invalid |-> st.invalid, valid_objects |-> <<>>]
    IN IF matches # <<>>
       THEN [ProcessMatches(buf, matches, st0) EXCEPT
                !.buffer = Slice(buf, matches[1].end)]
       ELSE st0

\* add_chunk keeping a rejected last span in the buffer (cut after the last
\* accepted span, or not at all when none was accepted)
add_chunk_KeepsRejected(st, text) ==
    LET buf == st.buffer \o text
        matches == FindIter(buf, 1)
        st0 == [buffer |-> buf, received |-> st.received, parsed |-> st.parsed,
                invalid |-> st.invalid, valid_objects |-> <<>>]
        accepted == {k \in 1..Len(matches) : _parse_json(Group(buf, matches[k])) # NoVal}
        cut == IF accepted = {} THEN 0
               ELSE matches[CHOOSE k \in accepted : \A l \in accepted : l <= k].end
    IN IF matches # <<>>
       THEN [ProcessMatches(buf, matches, st0) EXCEPT !.buffer = Slice(buf, cut)]
       ELSE st0

\* add_chunk scanning only the new text, not the buffered text before it
add_chunk_ScansTextOnly(st, text) ==
    LET matches == FindIter(text, 1)
        st0 == [buffer |-> st.buffer \o text, received |-> st.received,
                parsed |-> st.parsed, invalid |-> st.invalid, valid_objects |-> <<>>]
    IN IF matches # <<>>
       THEN [ProcessMatches(text, matches, st0) EXCEPT
                !.buffer = Slice(text, matches[Len(matches)].end)]
       ELSE st0

\* DataProcessor.add_chunk(text) on an extractor in state st =
\* [buffer, received, parsed, invalid]; valid_objects is the list returned
add_chunk(st, text) ==
    LET buf == st.buffer \o text
        matches == FindIter(buf, 1)
        st0 == [buffer |-> buf, received |-> st.received, parsed |-> st.parsed,
                invalid |-> st.invalid, valid_objects |-> <<>>]
    IN IF matches # <<>>
       THEN LET end_of_last == matches[Len(matches)].end
                remaining_buffer == Slice(buf, end_of_last)
                st1 == ProcessMatches(buf, matches, st0)
            IN [st1 EXCEPT !.buffer = remaining_buffer]
       ELSE st0

\* clear_buffer that only logs
clear_buffer_Keeps(st) == st

\* clear_buffer that starts the statistics anew as well
clear_buffer_ResetsCounters(st) ==
    [buffer |-> <<>>, received |-> 0, parsed |-> 0, invalid |-> 0]

\* DataProcessor.clear_buffer
clear_buffer(st) == [st EXCEPT !.buffer = <<>>]

\* DataProcessor.__init__
NewProcessor == [buffer |-> <<>>, received |-> 0, parsed |-> 0, invalid |-> 0]

Processor == [buffer |-> buffer, received |-> total_received,
              parsed |-> total_parsed, invalid |-> total_invalid]

SetProcessor(st) ==
    /\ buffer' = st.buffer
    /\ total_received' = st.received
    /\ total_parsed' = st.parsed
    /\ total_invalid' = st.invalid

-----------------------------------------------------------------------------
(* The text the simulated device prints: pieces, each a JSON object (flat, *)
(* empty, nested, or with a brace inside a string), text between objects,  *)
(* or unbalanced braces.                                                   *)

FlatA == <<LB, QT, QT, COLON, ONE, RB>>                         \* {"":1}
FlatB == <<LB, QT, LB, QT, COLON, ONE, RB>>                     \* {"{":1}
EmptyObj == <<LB, RB>>                                          \* {}
Nested == <<LB, QT, QT, COLON, LB, RB, RB>>                     \* {"":{}}
BraceInString == <<LB, QT, QT, COLON, QT, RB, QT, RB>>          \* {"":"}"}
Junk == <<COMMA>>                                               \* ,
Stray == <<RB, LB>>                                            \* }{

Pieces == {FlatA, FlatB, EmptyObj, Nested, BraceInString, Junk, Stray}

Documents == UNION {[1..n -> Pieces] : n \in 1..MaxPieces}

Stream == Flatten(doc)

-----------------------------------------------------------------------------
(* The extractor fed the device's text in consecutive chunks *)

NoCall == [op |-> "init", old |-> NewProcessor, text |-> <<>>, valid_objects |-> <<>>]

Summary(c) == [op |-> c.op, buffered |-> c.old.buffer # <<>>]

InitExtractor ==
    /\ buffer = NewProcessor.buffer
    /\ total_received = NewProcessor.received
    /\ total_parsed = NewProcessor.parsed
    /\ total_invalid = NewProcessor.invalid

InitFeed ==
    /\ fed = 0
    /\ cleared = FALSE
    /\ emitted = <<>>
    /\ call = NoCall
    /\ prevCall = Summary(NoCall)

\* data_processor.add_chunk(text) with the next n characters of the text
AddChunk(n) ==
    /\ fed + n <= Len(Stream)
    /\ LET text == SubSeq(Stream, fed + 1, fed + n)
           st == add_chunk(Processor, text)
       IN /\ SetProcessor(st)
          /\ emitted' = emitted \o st.valid_objects
          /\ call' = [op |-> "add", old |-> Processor, text |-> text,
                      valid_objects |-> st.valid_objects]
    /\ fed' = fed + n
    /\ prevCall' = Summary(call)
    /\ UNCHANGED <<doc, cleared>>

\* data_processor.clear_buffer()
ClearBuffer ==
    /\ SetProcessor(clear_buffer(Processor))
    /\ cleared' = TRUE
    /\ call' = [op |-> "clear", old |-> Processor, text |-> <<>>,
                valid_objects |-> <<>>]
    /\ prevCall' = Summary(call)
    /\ UNCHANGED <<doc, fed, emitted>>

NextExtractor ==
    \/ \E n \in 0..MaxChunk : AddChunk(n)
    \/ ClearBuffer

-----------------------------------------------------------------------------
(* SerialMonitor and the poll of the main loop *)

\* TinkerCADAutomation.read_serial_output: the line endings normalised
RECURSIVE read_serial_output(_)
read_serial_output(text) ==
    IF text = <<>> THEN <<>>
    ELSE IF Head(text) = CR
         THEN IF Len(text) >= 2 /\ text[2] = LF
              THEN <<LF>> \o read_serial_output(SubSeq(text, 3, Len(text)))
              ELSE <<LF>> \o read_serial_output(Tail(text))
    ELSE <<Head(text)>> \o read_serial_output(Tail(text))

\* get_new_content never moving last_text_length on
get_new_content_KeepsOffset(mon, full_text) ==
    [last_text_length |-> mon.last_text_length,
     total_reads |-> mon.total_reads + 1,
     new_content |-> Slice(full_text, mon.last_text_length),
     detected |-> FALSE]

\* get_new_content without the test for a shorter text (lines 278-281)
get_new_content_NoResetDetection(mon, full_text) ==
    [last_text_length |-> Len(full_text),
     total_reads |-> mon.total_reads + 1,
     new_content |-> Slice(full_text, mon.last_text_length),
     detected |-> FALSE]

\* SerialMonitor.get_new_content after read_serial_output returned full_text,
\* on a monitor mon = [last_text_length, total_reads]; detected is the
\* "Simulation reset detected" branch
get_new_content(mon, full_text) ==
    LET current_length == Len(full_text)
        detected == current_length < mon.last_text_length
        from == IF detected THEN 0 ELSE mon.last_text_length
    IN [last_text_length |-> current_length,
        total_reads |-> mon.total_reads + 1,
        new_content |-> Slice(full_text, from),
        detected |-> detected]

Monitor == [last_text_length |-> last_text_length, total_reads |-> total_reads]

\* what the simulated device prints after each start: telemetry objects and
\* line ends
EOL == <<CR, LF>>
DeviceTexts == {<<FlatA, EOL>>, <<FlatA, EOL, FlatB>>}

InitMonitor ==
    /\ screen = <<>>
    /\ last_text_length = 0
    /\ total_reads = 0
    /\ new_content = <<>>
    /\ json_objects = <<>>
    /\ restarts = 0
    /\ residue = 0
    /\ fedResidue = 0

\* the device prints its next character
DevicePrint ==
    /\ Len(screen) < Len(Stream)
    /\ screen' = SubSeq(Stream, 1, Len(screen) + 1)
    /\ UNCHANGED <<extractorVars, feedVars, last_text_length, total_reads,
                   new_content, json_objects, restarts, residue, fedResidue>>

\* the simulation is restarted: the serial monitor is cleared and the device
\* starts printing again
SimulationRestart ==
    /\ screen # <<>>
    /\ restarts < MaxRestarts
    /\ screen' = <<>>
    /\ restarts' = restarts + 1
    /\ UNCHANGED <<extractorVars, feedVars, last_text_length, total_reads,
                   new_content, json_objects, residue, fedResidue>>

\* one poll of the main loop, the read succeeding: get_new_content, then
\* add_chunk when there is new content
Poll ==
    /\ total_reads < MaxReads
    /\ LET got == get_new_content(Monitor, read_serial_output(screen))
           stale == IF got.detected THEN Len(buffer) ELSE residue
           st == add_chunk(Processor, got.new_content)
           consumed == Len(buffer) + Len(got.new_content) - Len(st.buffer)
       IN /\ last_text_length' = got.last_text_length
          /\ total_reads' = got.total_reads
          /\ new_content' = got.new_content
          /\ IF got.new_content # <<>>
             THEN /\ SetProcessor(st)
                  /\ json_objects' = st.valid_objects
                  /\ fedResidue' = stale
                  /\ residue' = IF consumed >= stale THEN 0 ELSE stale - consumed
             ELSE /\ UNCHANGED <<extractorVars, json_objects, fedResidue>>
                  /\ residue' = stale
    /\ UNCHANGED <<feedVars, screen, restarts>>

\* one poll of the main loop, read_serial_output returning None
PollFailed ==
    /\ new_content' = <<>>
    /\ UNCHANGED <<extractorVars, feedVars, screen, last_text_length,
                   total_reads, json_objects, restarts, residue, fedResidue>>

NextBridge ==
    \/ DevicePrint
    \/ SimulationRestart
    \/ Poll
    \/ PollFailed

-----------------------------------------------------------------------------
(* RateLimiter, ThingsBoardClient and the send loop of run_bridge *)

None == -1

\* settings.MAX_SEND_HZ, in messages per second
MaxHzChoices == {1, 2}

\* RateLimiter.__init__: min_interval = 1.0 / max_hz, in clock ticks
RateLimiterInit(max_hz) ==
    [min_interval |-> TicksPerSecond \div max_hz, last_send_time |-> 0]

\* wait_if_needed sleeping the whole interval whatever has elapsed
WaitTime_IgnoresElapsed(interval, last, t) == interval

\* wait_time of wait_if_needed: min_interval - (now - last_send_time)
WaitTime(interval, last, t) == interval - (t - last)

\* what requests.post gives: a response with a status code, or an exception
Statuses == {200, 304, 500}
Exceptions == {"Timeout", "ConnectionError", "Exception"}
Response(status) == [kind |-> "response", status |-> status]
Raised(exception) == [kind |-> exception, status |-> 0]
Outcomes == {Response(st) : st \in Statuses} \cup {Raised(e) : e \in Exceptions}

\* response.ok of requests: no 4xx or 5xx status
ResponseOk(status) == ~(400 <= status /\ status < 600)

\* send_telemetry counting no failure
send_telemetry_FailureUncounted(c, outcome, t) ==
    IF outcome.kind = "response" /\ ResponseOk(outcome.status)
    THEN [total_sent |-> c.total_sent + 1, total_failed |-> c.total_failed,
          last_send_time |-> t, ret |-> TRUE]
    ELSE [total_sent |-> c.total_sent, total_failed |-> c.total_failed,
          last_send_time |-> c.last_send_time, ret |-> FALSE]

\* ThingsBoardClient.send_telemetry on a client c = [total_sent, total_failed,
\* last_send_time], requests.post ending in outcome at time t; ret is the
\* value returned
send_telemetry(c, outcome, t) ==
    IF outcome.kind = "response"
    THEN IF ResponseOk(outcome.status)
         THEN [total_sent |-> c.total_sent + 1, total_failed |-> c.total_failed,
               last_send_time |-> t, ret |-> TRUE]
         ELSE [total_sent |-> c.total_sent, total_failed |-> c.total_failed + 1,
               last_send_time |-> t, ret |-> FALSE]
    ELSE [total_sent |-> c.total_sent, total_failed |-> c.total_failed + 1,
          last_send_time |-> c.last_send_time, ret |-> FALSE]

Client == [total_sent |-> total_sent, total_failed |-> total_failed,
           last_send_time |-> last_send_time]

\* throttle: began, done count the wait_if_needed calls begun and finished;
\* slept is the sleep the latest call asked for (0 for none); last is
\* last_send_time as the latest call found it
NoThrottle == [began |-> 0, done |-> 0, slept |-> 0, last |-> 0]

\* sending: began, returned count the send_telemetry calls; start, throttled
\* are when the latest send began and when the wait_if_needed before it
\* finished, prevStart, prevThrottled the same of the send before; outcome,
\* ret, before are the latest call's outcome, result and client before it
NoSending == [began |-> 0, returned |-> 0, start |-> 0, throttled |-> 0,
              prevStart |-> 0, prevThrottled |-> 0, outcome |-> Raised("none"),
              ret |-> FALSE,
              before |-> [total_sent |-> 0, total_failed |-> 0,
                          last_send_time |-> None]]

\* RateLimiter.__init__ and ThingsBoardClient.__init__, and the loop before
\* its first record
InitDelivery ==
    /\ clock \in 0..TicksPerSecond
    /\ \E max_hz \in MaxHzChoices :
          LET rl == RateLimiterInit(max_hz)
          IN /\ min_interval = rl.min_interval
             /\ rl_last_send_time = rl.last_send_time
    /\ now = 0
    /\ wait_time = 0
    /\ total_sent = 0
    /\ total_failed = 0
    /\ last_send_time = None
    /\ pc = "poll"
    /\ pending = 0
    /\ success = FALSE
    /\ message_count = 0
    /\ throttle = NoThrottle
    /\ sending = NoSending

\* time passes
Advance ==
    /\ clock < MaxClock
    /\ clock' = clock + 1
    /\ UNCHANGED <<extractorVars, feedVars, monitorVars, min_interval,
                   rl_last_send_time, now, wait_time, clientVars, loopVars>>

\* a poll hands n records to the send loop (json_objects of line 172)
Extracted(n) ==
    /\ pc = "poll"
    /\ sending.began + n <= MaxSends
    /\ pending' = n
    /\ pc' = "throttle"
    /\ UNCHANGED <<extractorVars, feedVars, monitorVars, limiterVars, clientVars,
                   success, message_count, throttle, sending>>

\* wait_if_needed, lines 73-77: now, elapsed, wait_time
WaitBegin ==
    /\ pc = "throttle"
    /\ now' = clock
    /\ wait_time' = WaitTime(min_interval, rl_last_send_time, clock)
    /\ pc' = IF wait_time' > 0 THEN "sleep" ELSE "stamp"
    /\ throttle' = [throttle EXCEPT !.began = @ + 1,
                                    !.slept = IF wait_time' > 0 THEN wait_time' ELSE 0,
                                    !.last = rl_last_send_time]
    /\ UNCHANGED <<extractorVars, feedVars, monitorVars, clock, min_interval,
                   rl_last_send_time, clientVars, pending, success,
                   message_count, sending>>

\* wait_if_needed, line 78: time.sleep(wait_time)
Sleep ==
    /\ pc = "sleep"
    /\ clock + wait_time <= MaxClock
    /\ clock' = clock + wait_time
    /\ pc' = "stamp"
    /\ UNCHANGED <<extractorVars, feedVars, monitorVars, min_interval,
                   rl_last_send_time, now, wait_time, clientVars, pending,
                   success, message_count, throttle, sending>>

\* wait_if_needed, line 80: last_send_time = time.time()
Stamp ==
    /\ pc = "stamp"
    /\ rl_last_send_time' = clock
    /\ pc' = "send"
    /\ throttle' = [throttle EXCEPT !.done = @ + 1]
    /\ UNCHANGED <<extractorVars, feedVars, monitorVars, clock, min_interval,
                   now, wait_time, clientVars, pending, success, message_count,
                   sending>>

\* send_telemetry begins: requests.post is called (line 54)
SendBegin ==
    /\ pc = "send"
    /\ pc' = "post"
    /\ sending' = [sending EXCEPT !.began = @ + 1,
                                  !.start = clock,
                                  !.throttled = rl_last_send_time,
                                  !.prevStart = sending.start,
                                  !.prevThrottled = sending.throttled]
    /\ UNCHANGED <<extractorVars, feedVars, monitorVars, limiterVars, clientVars,
                   pending, success, message_count, throttle>>

\* the loop staying at a record whose send failed, to send it again
SendReturn_RetriesFailed(outcome) ==
    /\ pc = "post"
    /\ LET c == send_telemetry(Client, outcome, clock)
       IN /\ total_sent' = c.total_sent
          /\ total_failed' = c.total_failed
          /\ last_send_time' = c.last_send_time
          /\ success' = c.ret
          /\ message_count' = IF c.ret THEN message_count + 1 ELSE message_count
          /\ sending' = [sending EXCEPT !.returned = @ + 1,
                                        !.outcome = outcome,
                                        !.before = Client,
                                        !.ret = c.ret]
          /\ pending' = IF c.ret THEN pending - 1 ELSE pending
    /\ pc' = IF pending' > 0 THEN "throttle" ELSE "poll"
    /\ UNCHANGED <<extractorVars, feedVars, monitorVars, limiterVars, throttle>>

\* requests.post ends in outcome, send_telemetry returns, and the loop counts
\* the message (lines 183-189)
SendReturn(outcome) ==
    /\ pc = "post"
    /\ LET c == send_telemetry(Client, outcome, clock)
       IN /\ total_sent' = c.total_sent
          /\ total_failed' = c.total_failed
          /\ last_send_time' = c.last_send_time
          /\ success' = c.ret
          /\ message_count' = IF c.ret THEN message_count + 1 ELSE message_count
          /\ sending' = [sending EXCEPT !.returned = @ + 1,
                                        !.outcome = outcome,
                                        !.before = Client,
                                        !.ret = c.ret]
    /\ pending' = pending - 1
    /\ pc' = IF pending' > 0 THEN "throttle" ELSE "poll"
    /\ UNCHANGED <<extractorVars, feedVars, monitorVars, limiterVars, throttle>>

NextDelivery ==
    \/ Advance
    \/ \E n \in 1..MaxRecords : Extracted(n)
    \/ WaitBegin
    \/ Sleep
    \/ Stamp
    \/ SendBegin
    \/ \E outcome \in Outcomes : SendReturn(outcome)

-----------------------------------------------------------------------------
(* Specifications *)

\* startup: how validate_config, test_connection, navigate_and_login and
\* setup_simulation ended: "pending", "ok" or "failed"
NotStarted == [config |-> "pending", connectivity |-> "pending",
               login |-> "pending", setup |-> "pending"]
StartedUp == [config |-> "ok", connectivity |-> "ok", login |-> "ok",
              setup |-> "ok"]

\* signal: pc and worked when KeyboardInterrupt arrived
NoSignal == [pc |-> "none", worked |-> 0]

\* a quotient a / b of Python, kept exact as numerator and denominator;
\* dividing by zero raises ZeroDivisionError
ZeroDivisionError == [num |-> 0, den |-> 0]
Number(n) == [num |-> n, den |-> 1]
Quotient(a, b) == IF b = 0 THEN ZeroDivisionError ELSE [num |-> a, den |-> b]
Times(q, k) == IF q = ZeroDivisionError THEN q ELSE [num |-> q.num * k, den |-> q.den]

\* stats: the component asked and the dictionary it returned
NoStats == [component |-> "none", dict |-> <<>>]

\* counters: the latest call made and, as they were before it, every counter,
\* the buffer and the client's last_send_time
Counters == [total_received |-> total_received, total_parsed |-> total_parsed,
             total_invalid |-> total_invalid, total_sent |-> total_sent,
             total_failed |-> total_failed, buffer |-> buffer,
             last_send_time |-> last_send_time]

\* track: the latest get_new_content call ("read", or "failed" when
\* read_serial_output returned None), last_text_length before it, the text
\* last read, whether every text read so far began with the one read before
\* it, and the concatenation of all strings returned
NoTrack == [op |-> "none", before |-> 0, lastRead |-> <<>>, appendOnly |-> TRUE,
            delivered |-> <<>>]

\* the parts a specification leaves out stay as constructed
IdleFeed == doc = <<>> /\ InitFeed
IdleRun ==
    /\ startup = StartedUp
    /\ cause = "none"
    /\ signal = NoSignal
    /\ polls = 0
    /\ worked = 0
    /\ tickLog = <<>>
    /\ shutdown = <<>>
    /\ result = "none"
    /\ exit_code = None
IdleCalls ==
    /\ stats = NoStats
    /\ counters = [op |-> "none", before |-> Counters]
    /\ track = NoTrack
IdleDelivery ==
    /\ clock = 0
    /\ min_interval = RateLimiterInit(1).min_interval
    /\ rl_last_send_time = RateLimiterInit(1).last_send_time
    /\ now = 0
    /\ wait_time = 0
    /\ total_sent = 0
    /\ total_failed = 0
    /\ last_send_time = None
    /\ pc = "poll"
    /\ pending = 0
    /\ success = FALSE
    /\ message_count = 0
    /\ throttle = NoThrottle
    /\ sending = NoSending

\* the DataProcessor alone, fed a text in consecutive chunks
Init ==
    /\ InitExtractor
    /\ doc \in Documents
    /\ InitFeed
    /\ InitMonitor
    /\ IdleDelivery
    /\ IdleRun
    /\ IdleCalls
Next == NextExtractor /\ UNCHANGED <<monitorVars, deliveryVars, runVars, callVars>>
Spec == Init /\ [][Next]_vars

\* the serial monitor polled by the main loop while the device prints
InitBridge ==
    /\ InitExtractor
    /\ doc \in DeviceTexts
    /\ InitFeed
    /\ InitMonitor
    /\ IdleDelivery
    /\ IdleRun
    /\ IdleCalls
SpecBridge ==
    InitBridge /\ [][NextBridge /\ UNCHANGED <<deliveryVars, runVars, callVars>>]_vars

\* the send loop: rate limiter, client and clock
InitSend ==
    /\ InitExtractor
    /\ IdleFeed
    /\ InitMonitor
    /\ InitDelivery
    /\ IdleRun
    /\ IdleCalls
SpecDelivery ==
    InitSend /\ [][NextDelivery /\ UNCHANGED <<runVars, callVars>>]_vars

-----------------------------------------------------------------------------
(* Properties of the extractor *)

Chars(s) == {s[i] : i \in 1..Len(s)}

\* a "{" followed anywhere later by a "}": what \{.*?\} matches
HasSpan(s) == \E i, j \in 1..Len(s) : i < j /\ s[i] = LB /\ s[j] = RB

\* the ends of the candidate spans of s, stated without scanning: the "}"
\* whose nearest brace to the left is a "{"
SpanEnds(s) ==
    {j \in 1..Len(s) :
        /\ s[j] = RB
        /\ \E i \in 1..(j - 1) :
              /\ s[i] = LB
              /\ \A k \in (i + 1)..(j - 1) : s[k] # RB}

SetMax(S) == CHOOSE e \in S : \A f \in S : f <= e
SetMin(S) == CHOOSE e \in S : \A f \in S : e <= f

\* the start of the span that ends at j, ends being the ends of all spans:
\* the first "{" after the span before
SpanStart(s, ends, j) ==
    LET before == {e \in ends : e < j}
        from == IF before = {} THEN 1 ELSE 1 + SetMax(before)
    IN SetMin({i \in from..j : s[i] = LB})

\* the candidate spans of s that end at one of todo, left to right
RECURSIVE SpansFrom(_, _, _)
SpansFrom(s, ends, todo) ==
    IF todo = {} THEN <<>>
    ELSE LET j == SetMin(todo)
         IN <<SubSeq(s, SpanStart(s, ends, j), j)>> \o SpansFrom(s, ends, todo \ {j})

Spans(s) == LET ends == SpanEnds(s) IN SpansFrom(s, ends, ends)

\* the text parses as a JSON object with at least one key
IsRecordText(text) ==
    LET r == JsonLoads(text)
    IN r.ok /\ r.val.t = "obj" /\ Len(r.val.m) >= 1

\* the text has no brace
BraceFree(text) == Chars(text) \cap {LB, RB} = {}

\* a record text whose only "}" is its last character
IsFlatRecordText(text) == IsRecordText(text) /\ IndexOf(text, RB, 1) = Len(text)

\* the records of the object pieces of d, in order
RECURSIVE RecordsOf(_)
RecordsOf(d) ==
    IF d = <<>> THEN <<>>
    ELSE (IF IsRecordText(Head(d)) THEN <<JsonLoads(Head(d)).val>> ELSE <<>>)
         \o RecordsOf(Tail(d))

\* the text fed to the most recent add_chunk, after the buffered text
Scanned == call.old.buffer \o call.text

AllFed == fed = Len(Stream)

\* the records the spans of s yield, in order
RECURSIVE Accepted(_)
Accepted(spans) ==
    IF spans = <<>> THEN <<>>
    ELSE (IF IsRecordText(Head(spans)) THEN <<JsonLoads(Head(spans)).val>> ELSE <<>>)
         \o Accepted(Tail(spans))

\* C1 as stated: whenever the whole text, made of valid non-empty JSON objects
\* and brace-free text between them, has been fed in any chunking with no
\* clear_buffer, the records returned are exactly those objects in order.
C1_AnyValidObjects ==
    (/\ AllFed
     /\ ~cleared
     /\ \A k \in 1..Len(doc) : IsRecordText(doc[k]) \/ BraceFree(doc[k]))
    => emitted = RecordsOf(doc)

\* C1 amended: the same, for objects whose text holds no "}" but the closing
\* one (no nested object, no "}" inside a string).
C1_ChunkingInvariance ==
    (/\ AllFed
     /\ ~cleared
     /\ \A k \in 1..Len(doc) : IsFlatRecordText(doc[k]) \/ BraceFree(doc[k]))
    => emitted = RecordsOf(doc)

\* two different flat objects fed with no clear, the last call completing an
\* object that was split across chunks
C1_Witness ==
    /\ AllFed
    /\ ~cleared
    /\ \A k \in 1..Len(doc) : IsFlatRecordText(doc[k]) \/ BraceFree(doc[k])
    /\ Len(emitted) = 2
    /\ emitted[1] # emitted[2]
    /\ call.op = "add"
    /\ call.old.buffer # <<>>
    /\ Len(call.valid_objects) = 1

\* C2: after every call the buffer holds no complete candidate span, no "{"
\* with a "}" anywhere after it.
C2_BufferHasNoSpan == ~HasSpan(buffer)

\* an add_chunk that returned a record and left a partial object buffered
C2_Witness ==
    /\ call.op = "add"
    /\ call.valid_objects # <<>>
    /\ buffer # <<>>
    /\ LB \in Chars(buffer)

\* C3: when add_chunk finds a span in buffer + text, the new buffer is exactly
\* the text after the end of the last span, accepted or not.
C3_TrimAfterLastSpan ==
    (call.op = "add" /\ HasSpan(Scanned))
    => LET last == SetMax(SpanEnds(Scanned))
       IN buffer = SubSeq(Scanned, last + 1, Len(Scanned))

\* an add_chunk whose last span was rejected after an earlier one was accepted
C3_Witness ==
    /\ call.op = "add"
    /\ HasSpan(Scanned)
    /\ call.valid_objects # <<>>
    /\ LET spans == Spans(Scanned) IN ~IsRecordText(spans[Len(spans)])

\* C4: each span evaluated adds one to total_received and one to exactly one of
\* total_parsed and total_invalid; the spans returned (and counted parsed) are
\* exactly those that parse as a JSON object with at least one key, in order.
C4_SpanClassification ==
    call.op = "add" =>
        LET spans == Spans(Scanned)
            n == Len(spans)
            ok == Accepted(spans)
        IN /\ total_received = call.old.received + n
           /\ total_parsed = call.old.parsed + Len(ok)
           /\ total_invalid = call.old.invalid + (n - Len(ok))
           /\ call.valid_objects = ok

\* one add_chunk that accepted a span and rejected the empty object {}
C4_Witness ==
    /\ call.op = "add"
    /\ Len(call.valid_objects) = 1
    /\ total_invalid = call.old.invalid + 1
    /\ LET spans == Spans(Scanned) IN \E k \in 1..Len(spans) : spans[k] = EmptyObj

\* C5: when buffer + text holds no span, add_chunk returns the empty list,
\* leaves the three counters alone and keeps the old buffer followed by text.
C5_NoSpanKeepsAll ==
    (call.op = "add" /\ ~HasSpan(Scanned))
    => /\ call.valid_objects = <<>>
       /\ total_received = call.old.received
       /\ total_parsed = call.old.parsed
       /\ total_invalid = call.old.invalid
       /\ buffer = call.old.buffer \o call.text

\* text with an open brace added to a non-empty buffer, no span yet
C5_Witness ==
    /\ call.op = "add"
    /\ ~HasSpan(Scanned)
    /\ call.old.buffer # <<>>
    /\ call.text # <<>>
    /\ LB \in Chars(Scanned)

\* C6: clear_buffer leaves the buffer empty, and the add_chunk(text) right
\* after it returns the records and leaves the buffer that add_chunk(text)
\* gives on a new DataProcessor.
C6_ClearIsFresh ==
    /\ call.op = "clear" => buffer = <<>>
    /\ (call.op = "add" /\ prevCall.op = "clear")
       => LET fresh == add_chunk(NewProcessor, call.text)
          IN /\ call.valid_objects = fresh.valid_objects
             /\ buffer = fresh.buffer

\* a clear_buffer that dropped a partial object, then an add_chunk of its rest
C6_Witness ==
    /\ call.op = "add"
    /\ prevCall.op = "clear"
    /\ prevCall.buffered
    /\ RB \in Chars(call.text)
    /\ total_parsed > 0

-----------------------------------------------------------------------------
(* Properties of the poll *)

\* C7: after the monitor detects a discontinuity the buffer is cleared before
\* text read after it is passed to add_chunk: no add_chunk finds text from
\* before the discontinuity still in the buffer.
C7_ClearedBeforeFeeding == fedResidue = 0

-----------------------------------------------------------------------------
(* Properties of the send loop *)

\* the sleep wait_if_needed is to ask for when it finds that elapsed ticks have
\* passed since last_send_time
DueSleep(elapsed) == IF elapsed < min_interval THEN min_interval - elapsed ELSE 0

\* C8 as stated: a call sleeps only if less than min_interval has passed since
\* the call before it finished, and then for min_interval - elapsed; two
\* consecutive calls finish at least min_interval apart; two consecutive sends
\* never start less than min_interval apart.
C8_SendStartsSpaced ==
    /\ throttle.began >= 2 => throttle.slept = DueSleep(now - throttle.last)
    /\ (throttle.done >= 2 /\ throttle.done = throttle.began)
       => rl_last_send_time - throttle.last >= min_interval
    /\ sending.began >= 2 => sending.start - sending.prevStart >= min_interval

\* C8 amended: every call (the first measuring from time 0) sleeps only if less
\* than min_interval has passed since last_send_time, for min_interval -
\* elapsed; consecutive calls finish at least min_interval apart; every send
\* starts after its own wait_if_needed finished, so at least min_interval
\* after the wait_if_needed before the previous send finished.
C8_ThrottleSpacing ==
    /\ throttle.began >= 1 => throttle.slept = DueSleep(now - throttle.last)
    /\ (throttle.done >= 2 /\ throttle.done = throttle.began)
       => rl_last_send_time - throttle.last >= min_interval
    /\ pc = "post" => throttle.done = sending.began
    /\ sending.began >= 1 => sending.start >= sending.throttled
    /\ sending.began >= 2 => sending.start >= sending.prevThrottled + min_interval

\* a second send under way whose wait_if_needed had to sleep
C8_Witness ==
    /\ pc = "post"
    /\ sending.began >= 2
    /\ throttle.done >= 2
    /\ throttle.slept > 0

\* C9: the first wait_if_needed call on a new RateLimiter does not sleep,
\* whatever max_hz and the clock are.
C9_FirstCallNoSleep == throttle.began = 1 => throttle.slept = 0

\* the status is one of 2xx
Is2xx(outcome) ==
    outcome.kind = "response" /\ 200 <= outcome.status /\ outcome.status < 300

\* C10: every send_telemetry call returns a boolean, TRUE exactly for a 2xx
\* response, and adds one to exactly one counter: total_sent when it returns
\* TRUE, total_failed otherwise; total_sent + total_failed is the number of
\* calls that returned.
C10_SendAccounting ==
    /\ sending.returned >= 1 =>
          /\ sending.ret \in BOOLEAN
          /\ sending.ret <=> Is2xx(sending.outcome)
          /\ IF sending.ret
             THEN /\ total_sent = sending.before.total_sent + 1
                  /\ total_failed = sending.before.total_failed
             ELSE /\ total_sent = sending.before.total_sent
                  /\ total_failed = sending.before.total_failed + 1
    /\ total_sent + total_failed = sending.returned

\* C11: the client's last_send_time is the time of the latest 2xx send: a send
\* that ends otherwise (another status, a timeout, a connection error, any
\* other failure) leaves it as it was, and it is unset until a send returned.
C11_LastSendTracksSuccess ==
    /\ sending.returned = 0 => last_send_time = None
    /\ (sending.returned >= 1 /\ ~Is2xx(sending.outcome))
       => last_send_time = sending.before.last_send_time

\* C13: message_count counts every record handed to send_telemetry, whether
\* the send succeeded or failed: once a send has returned it equals the number
\* of send attempts made for stream records.
C13_CountsEveryAttempt == pc # "post" => message_count = sending.returned

-----------------------------------------------------------------------------
(* run_bridge and main: startup, the main loop, how the loop ends *)

\* where the main loop (lines 166-192) can stand
LoopPcs == {"poll", "throttle", "sleep", "stamp", "send", "post"}

\* the record of json_objects the for loop stands at (data of line 174)
Current == json_objects[Len(json_objects) - pending + 1]

\* the startup going on to the browser without testing the connection
AfterValidateConfig_SkipsTest(errors) == IF errors THEN "main" ELSE "login"

\* lines 91-97: return False on configuration errors
AfterValidateConfig(errors) == IF errors THEN "main" ELSE "connect"

\* the startup going on although the connection test failed
AfterTestConnection_Ungated(ok) == "login"

\* lines 112-114: return False when test_connection failed
AfterTestConnection(ok) == IF ok THEN "login" ELSE "main"

\* lines 135-138: return False when the login failed
AfterLogin(ok) == IF ok THEN "setup" ELSE "main"

\* lines 142-145: return False when the simulation could not be set up
AfterSetup(ok) == IF ok THEN "poll" ELSE "main"

\* the KeyboardInterrupt handler printing the extractor's statistics only
StopReport_ExtractorOnly == <<"data_processor.print_stats">>

\* lines 206-207: the statistics the KeyboardInterrupt handler prints
StopReport == <<"data_processor.print_stats", "tb_client.print_stats">>

\* a finally block that a failure in stop_simulation cuts short
Cleanup_StopsAtFailure(stop_failed) ==
    IF stop_failed
    THEN <<"automation.stop_simulation", "stop_simulation: warning">>
    ELSE <<"automation.stop_simulation", "context.close", "browser.close">>

\* lines 215-217: the finally block; stop_simulation catches what its click
\* raises and logs a warning (browser_automation.py, lines 237-244)
Cleanup(stop_failed) ==
    <<"automation.stop_simulation">>
    \o (IF stop_failed THEN <<"stop_simulation: warning">> ELSE <<>>)
    \o <<"context.close", "browser.close">>

\* run_bridge before its first statement
InitRun ==
    /\ clock \in 0..TicksPerSecond
    /\ \E max_hz \in MaxHzChoices :
          LET rl == RateLimiterInit(max_hz)
          IN /\ min_interval = rl.min_interval
             /\ rl_last_send_time = rl.last_send_time
    /\ now = 0
    /\ wait_time = 0
    /\ total_sent = 0
    /\ total_failed = 0
    /\ last_send_time = None
    /\ pc = "validate"
    /\ pending = 0
    /\ success = FALSE
    /\ message_count = 0
    /\ throttle = NoThrottle
    /\ sending = NoSending
    /\ startup = NotStarted
    /\ cause = "none"
    /\ signal = NoSignal
    /\ polls = 0
    /\ worked = 0
    /\ tickLog = <<>>
    /\ shutdown = <<>>
    /\ result = "none"
    /\ exit_code = None

\* settings.validate_config() (lines 91-97)
ValidateConfig(errors) ==
    /\ pc = "validate"
    /\ pc' = AfterValidateConfig(errors)
    /\ startup' = [startup EXCEPT !.config = IF errors THEN "failed" ELSE "ok"]
    /\ result' = IF pc' = "main" THEN "False" ELSE result
    /\ UNCHANGED <<extractorVars, feedVars, monitorVars, limiterVars, clientVars,
                   pending, success, message_count, throttle, sending, cause,
                   signal, polls, worked, tickLog, shutdown, exit_code, callVars>>

\* tb_client.test_connection() (lines 112-114): send_telemetry of a test
\* record, requests.post ending in outcome
TestConnection(outcome) ==
    /\ pc = "connect"
    /\ LET c == send_telemetry(Client, outcome, clock)
       IN /\ total_sent' = c.total_sent
          /\ total_failed' = c.total_failed
          /\ last_send_time' = c.last_send_time
          /\ pc' = AfterTestConnection(c.ret)
          /\ startup' = [startup EXCEPT
                            !.connectivity = IF c.ret THEN "ok" ELSE "failed"]
    /\ result' = IF pc' = "main" THEN "False" ELSE result
    /\ UNCHANGED <<extractorVars, feedVars, monitorVars, limiterVars, pending,
                   success, message_count, throttle, sending, cause, signal,
                   polls, worked, tickLog, shutdown, exit_code, callVars>>

\* automation.navigate_and_login(...) (lines 129-138)
Login(ok) ==
    /\ pc = "login"
    /\ pc' = AfterLogin(ok)
    /\ startup' = [startup EXCEPT !.login = IF ok THEN "ok" ELSE "failed"]
    /\ shutdown' = IF ok THEN shutdown ELSE Append(shutdown, "browser.close")
    /\ result' = IF pc' = "main" THEN "False" ELSE result
    /\ UNCHANGED <<extractorVars, feedVars, monitorVars, limiterVars, clientVars,
                   pending, success, message_count, throttle, sending, cause,
                   signal, polls, worked, tickLog, exit_code, callVars>>

\* automation.setup_simulation() (lines 141-145), then the dashboard, the
\* SerialMonitor and message_count = 0 (lines 148-163)
Setup(ok) ==
    /\ pc = "setup"
    /\ pc' = AfterSetup(ok)
    /\ startup' = [startup EXCEPT !.setup = IF ok THEN "ok" ELSE "failed"]
    /\ shutdown' = IF ok THEN shutdown ELSE Append(shutdown, "browser.close")
    /\ result' = IF pc' = "main" THEN "False" ELSE result
    /\ UNCHANGED <<extractorVars, feedVars, monitorVars, limiterVars, clientVars,
                   pending, success, message_count, throttle, sending, cause,
                   signal, polls, worked, tickLog, exit_code, callVars>>

\* the device prints the next piece of its text (a telemetry object or a line
\* end) on the serial monitor
DevicePrintPiece ==
    /\ \E k \in 0..(Len(doc) - 1) :
          /\ screen = Flatten(SubSeq(doc, 1, k))
          /\ screen' = Flatten(SubSeq(doc, 1, k + 1))
    /\ UNCHANGED <<extractorVars, feedVars, last_text_length, total_reads,
                   new_content, json_objects, restarts, residue, fedResidue,
                   deliveryVars, runVars, callVars>>

\* one tick of the loop up to its for statement (lines 168-174), the read
\* succeeding
TickPoll ==
    /\ pc = "poll"
    /\ polls < MaxReads
    /\ Poll
    /\ polls' = polls + 1
    /\ worked' = IF new_content' # <<>> THEN worked + 1 ELSE worked
    /\ pending' = IF new_content' # <<>> THEN Len(json_objects') ELSE 0
    /\ pc' = IF pending' > 0 THEN "throttle" ELSE "poll"
    /\ tickLog' = <<>>
    /\ UNCHANGED <<limiterVars, clientVars, success, message_count, throttle,
                   sending, startup, cause, signal, shutdown, result, exit_code,
                   callVars>>

\* one tick of the loop, read_serial_output returning None
TickPollFailed ==
    /\ pc = "poll"
    /\ polls < MaxReads
    /\ PollFailed
    /\ polls' = polls + 1
    /\ tickLog' = <<>>
    /\ UNCHANGED <<deliveryVars, startup, cause, signal, worked, shutdown,
                   result, exit_code, callVars>>

\* rate_limiter.wait_if_needed() is called for the record (line 176)
TickWait ==
    /\ WaitBegin
    /\ tickLog' = Append(tickLog, [op |-> "wait_if_needed", data |-> Current])
    /\ UNCHANGED <<startup, cause, signal, polls, worked, shutdown, result,
                   exit_code, callVars>>

TickSleep == Sleep /\ UNCHANGED <<runVars, callVars>>

TickStamp == Stamp /\ UNCHANGED <<runVars, callVars>>

\* tb_client.send_telemetry(data) is called for the record (line 183)
TickSend ==
    /\ SendBegin
    /\ tickLog' = Append(tickLog, [op |-> "send_telemetry", data |-> Current])
    /\ worked' = worked + 1
    /\ UNCHANGED <<startup, cause, signal, polls, shutdown, result, exit_code,
                   callVars>>

TickSendReturn(outcome) == SendReturn(outcome) /\ UNCHANGED <<runVars, callVars>>

\* the preview print of line 180 raises (stdout closed, or unable to encode
\* the text): an exception other than KeyboardInterrupt inside the loop, caught
\* by the except clause of lines 209-210
PreviewRaises ==
    /\ pc = "send"
    /\ cause' = "exception"
    /\ pc' = "cleanup"
    /\ UNCHANGED <<extractorVars, feedVars, monitorVars, limiterVars, clientVars,
                   pending, success, message_count, throttle, sending, startup,
                   signal, polls, worked, tickLog, shutdown, result, exit_code,
                   callVars>>

\* Ctrl+C: KeyboardInterrupt is raised wherever the loop stands
KeyboardInterrupt ==
    /\ pc \in LoopPcs
    /\ cause' = "interrupt"
    /\ signal' = [pc |-> pc, worked |-> worked]
    /\ pc' = "interrupted"
    /\ UNCHANGED <<extractorVars, feedVars, monitorVars, limiterVars, clientVars,
                   pending, success, message_count, throttle, sending, startup,
                   polls, worked, tickLog, shutdown, result, exit_code, callVars>>

\* the except KeyboardInterrupt clause (lines 194-207)
Stopped ==
    /\ pc = "interrupted"
    /\ shutdown' = shutdown \o StopReport
    /\ pc' = "cleanup"
    /\ UNCHANGED <<extractorVars, feedVars, monitorVars, limiterVars, clientVars,
                   pending, success, message_count, throttle, sending, startup,
                   cause, signal, polls, worked, tickLog, result, exit_code,
                   callVars>>

\* the finally clause, stop_simulation failing or not, and return True
\* (lines 212-221)
Finally(stop_failed) ==
    /\ pc = "cleanup"
    /\ shutdown' = shutdown \o Cleanup(stop_failed)
    /\ result' = "True"
    /\ pc' = "main"
    /\ UNCHANGED <<extractorVars, feedVars, monitorVars, limiterVars, clientVars,
                   pending, success, message_count, throttle, sending, startup,
                   cause, signal, polls, worked, tickLog, exit_code, callVars>>

\* main: exit_code = 0 if success else 1, sys.exit(exit_code) (lines 237-247)
Exit ==
    /\ pc = "main"
    /\ exit_code' = IF result = "True" THEN 0 ELSE 1
    /\ pc' = "exit"
    /\ UNCHANGED <<extractorVars, feedVars, monitorVars, limiterVars, clientVars,
                   pending, success, message_count, throttle, sending, startup,
                   cause, signal, polls, worked, tickLog, shutdown, result,
                   callVars>>

NextRun ==
    \/ \E errors \in BOOLEAN : ValidateConfig(errors)
    \/ \E outcome \in Outcomes : TestConnection(outcome)
    \/ \E ok \in BOOLEAN : Login(ok)
    \/ \E ok \in BOOLEAN : Setup(ok)
    \/ DevicePrintPiece
    \/ TickPoll
    \/ TickPollFailed
    \/ TickWait
    \/ TickSleep
    \/ TickStamp
    \/ TickSend
    \/ \E outcome \in Outcomes : TickSendReturn(outcome)
    \/ PreviewRaises
    \/ KeyboardInterrupt
    \/ Stopped
    \/ \E stop_failed \in BOOLEAN : Finally(stop_failed)
    \/ Exit

\* a whole run of the program: startup, the loop over the device's text, and
\* the ways out; the clock moves by the sleeps of wait_if_needed (the timing
\* of the send loop is what SpecDelivery is about)
InitProgram ==
    /\ InitExtractor
    /\ doc \in DeviceTexts
    /\ InitFeed
    /\ InitMonitor
    /\ InitRun
    /\ IdleCalls
SpecRun == InitProgram /\ [][NextRun]_vars

-----------------------------------------------------------------------------
(* Properties of a run *)

IsPrefix(a, b) == Len(a) <= Len(b) /\ a = SubSeq(b, 1, Len(a))

\* the calls due to a list of records: for each record in order, one
\* wait_if_needed and then one send_telemetry of that record
RECURSIVE Protocol(_)
Protocol(objs) ==
    IF objs = <<>> THEN <<>>
    ELSE <<[op |-> "wait_if_needed", data |-> Head(objs)],
           [op |-> "send_telemetry", data |-> Head(objs)]>> \o Protocol(Tail(objs))

\* the records add_chunk returned in the current tick
Handed == IF new_content # <<>> THEN json_objects ELSE <<>>

\* C12: within a tick the calls made are, for each record add_chunk returned
\* and in the order returned, one wait_if_needed and then one send_telemetry
\* of that record, the next record being touched only after the send of the
\* one before returned; a tick that ran to its end made exactly these calls,
\* so no send is retried, repeated or batched.
C12_PerRecordProtocol ==
    LET done == Len(Handed) - pending
    IN /\ IsPrefix(tickLog, Protocol(Handed))
       /\ pc = "throttle" => Len(tickLog) = 2 * done
       /\ pc \in {"sleep", "stamp", "send"} => Len(tickLog) = 2 * done + 1
       /\ pc = "post" => Len(tickLog) = 2 * done + 2
       /\ pc = "poll" => tickLog = Protocol(Handed)

\* a tick over two different records has ended, the last send having failed
C12_Witness ==
    /\ pc = "poll"
    /\ Len(tickLog) = 4
    /\ tickLog[2].data # tickLog[4].data
    /\ sending.returned = 2
    /\ ~sending.ret

\* C14: an exception other than KeyboardInterrupt raised while a tick is
\* processed leaves the loop running: it goes on to the next poll.
C14_TickFaultIsolated == cause = "exception" => pc \in LoopPcs

Streamed == polls > 0 \/ worked > 0 \/ sending.began > 0 \/ pc \in LoopPcs

StartupFailed == \E step \in DOMAIN startup : startup[step] = "failed"

\* C15: the serial monitor is read, add_chunk called or a stream record sent
\* only after validate_config found no error, test_connection succeeded and
\* login and simulation setup succeeded; when one of them fails, run_bridge
\* returns False with no read, add_chunk or stream send made.
C15_StartupGating ==
    /\ Streamed => startup = StartedUp
    /\ StartupFailed => /\ ~Streamed
                        /\ pc \in {"main", "exit"}
                        /\ result = "False"

\* a stream record is being sent after a complete startup
C15_Witness == pc = "post" /\ sending.began >= 1 /\ startup = StartedUp

\* C16: the process exits with 0 exactly when the run ended by a
\* user-requested stop, and with 1 when it ended by a startup failure or an
\* unexpected exception in the loop.
C16_ExitCodes ==
    pc = "exit" =>
       /\ exit_code = 0 <=> cause = "interrupt"
       /\ (StartupFailed \/ cause = "exception") => exit_code = 1

\* the calls of a shutdown log, without the warnings logged
IsCall(entry) == entry # "stop_simulation: warning"
CallsOf(log) == SelectSeq(log, IsCall)

\* C17: once KeyboardInterrupt arrived in the loop, the loop is left, the
\* statistics of the extractor and of the client are printed, then the
\* simulation is stopped and context and browser are closed, in this order;
\* no add_chunk or send is made after the signal.
C17_OrderlyStop ==
    cause = "interrupt" =>
       /\ pc \in {"interrupted", "cleanup", "main", "exit"}
       /\ worked = signal.worked
       /\ pc = "interrupted" => shutdown = <<>>
       /\ pc = "cleanup" =>
             shutdown = <<"data_processor.print_stats", "tb_client.print_stats">>
       /\ pc \in {"main", "exit"} =>
             CallsOf(shutdown) =
                <<"data_processor.print_stats", "tb_client.print_stats",
                  "automation.stop_simulation", "context.close", "browser.close">>

\* the run has ended after a KeyboardInterrupt that arrived during a send
C17_Witness == cause = "interrupt" /\ pc = "exit" /\ signal.pc = "post"

\* C18: KeyboardInterrupt takes effect at a tick boundary only: when it
\* arrives, no record of the tick is left without its send attempt.
C18_CancelBetweenTicks ==
    cause = "interrupt" => signal.pc = "poll" /\ pending = 0

-----------------------------------------------------------------------------
(* The two components called in any order by any caller *)

\* get_stats dividing without looking at total_received
DataProcessor_get_stats_Unguarded(st) ==
    [total_received |-> st.received,
     total_parsed |-> st.parsed,
     total_invalid |-> st.invalid,
     parse_rate |-> Times(Quotient(st.parsed, st.received), 100),
     buffer_size |-> Len(st.buffer)]

\* DataProcessor.get_stats
DataProcessor_get_stats(st) ==
    [total_received |-> st.received,
     total_parsed |-> st.parsed,
     total_invalid |-> st.invalid,
     parse_rate |-> IF st.received > 0
                    THEN Times(Quotient(st.parsed, st.received), 100)
                    ELSE Number(0),
     buffer_size |-> Len(st.buffer)]

\* ThingsBoardClient.get_stats
ThingsBoardClient_get_stats(c) ==
    [total_sent |-> c.total_sent,
     total_failed |-> c.total_failed,
     success_rate |-> IF (c.total_sent + c.total_failed) > 0
                      THEN Times(Quotient(c.total_sent,
                                          c.total_sent + c.total_failed), 100)
                      ELSE Number(0),
     last_send_time |-> c.last_send_time]

\* the text the extractor is fed: an accepted span and a rejected one
CallTexts == {<<FlatA, EmptyObj>>}

CallAddChunk(n) ==
    /\ AddChunk(n)
    /\ counters' = [op |-> "add_chunk", before |-> Counters]
    /\ UNCHANGED <<monitorVars, deliveryVars, runVars, stats, track>>

CallClearBuffer ==
    /\ ClearBuffer
    /\ counters' = [op |-> "clear_buffer", before |-> Counters]
    /\ UNCHANGED <<monitorVars, deliveryVars, runVars, stats, track>>

CallDataProcessorStats ==
    /\ stats' = [component |-> "DataProcessor",
                 dict |-> DataProcessor_get_stats(Processor)]
    /\ counters' = [op |-> "DataProcessor.get_stats", before |-> Counters]
    /\ UNCHANGED <<extractorVars, feedVars, monitorVars, deliveryVars, runVars,
                   track>>

\* tb_client.send_telemetry(data), requests.post ending in outcome
CallSendTelemetry(outcome) ==
    /\ total_sent + total_failed < MaxClientCalls
    /\ LET c == send_telemetry(Client, outcome, clock)
       IN /\ total_sent' = c.total_sent
          /\ total_failed' = c.total_failed
          /\ last_send_time' = c.last_send_time
    /\ counters' = [op |-> "send_telemetry", before |-> Counters]
    /\ UNCHANGED <<extractorVars, feedVars, monitorVars, limiterVars, loopVars,
                   runVars, stats, track>>

\* tb_client.test_connection(): send_telemetry of the test record
CallTestConnection(outcome) ==
    /\ total_sent + total_failed < MaxClientCalls
    /\ LET c == send_telemetry(Client, outcome, clock)
       IN /\ total_sent' = c.total_sent
          /\ total_failed' = c.total_failed
          /\ last_send_time' = c.last_send_time
    /\ counters' = [op |-> "test_connection", before |-> Counters]
    /\ UNCHANGED <<extractorVars, feedVars, monitorVars, limiterVars, loopVars,
                   runVars, stats, track>>

CallClientStats ==
    /\ stats' = [component |-> "ThingsBoardClient",
                 dict |-> ThingsBoardClient_get_stats(Client)]
    /\ counters' = [op |-> "ThingsBoardClient.get_stats", before |-> Counters]
    /\ UNCHANGED <<extractorVars, feedVars, monitorVars, deliveryVars, runVars,
                   track>>

NextCalls ==
    \/ \E n \in 0..MaxChunk : CallAddChunk(n)
    \/ CallClearBuffer
    \/ CallDataProcessorStats
    \/ \E outcome \in Outcomes : CallSendTelemetry(outcome)
    \/ \E outcome \in Outcomes : CallTestConnection(outcome)
    \/ CallClientStats

InitCalls ==
    /\ InitExtractor
    /\ doc \in CallTexts
    /\ InitFeed
    /\ InitMonitor
    /\ IdleDelivery
    /\ IdleRun
    /\ IdleCalls
SpecCalls == InitCalls /\ [][NextCalls]_vars

-----------------------------------------------------------------------------
(* Properties of the statistics *)

\* C19: whatever calls are made (add_chunk, clear_buffer, get_stats,
\* send_telemetry, test_connection), no counter is lower after a call than
\* before it; clear_buffer and both get_stats leave every counter as it was,
\* and the get_stats calls also the buffer and last_send_time.
C19_CountersMonotone ==
    LET before == counters.before
    IN /\ total_received >= before.total_received
       /\ total_parsed >= before.total_parsed
       /\ total_invalid >= before.total_invalid
       /\ total_sent >= before.total_sent
       /\ total_failed >= before.total_failed
       /\ counters.op = "clear_buffer" =>
             /\ total_received = before.total_received
             /\ total_parsed = before.total_parsed
             /\ total_invalid = before.total_invalid
             /\ total_sent = before.total_sent
             /\ total_failed = before.total_failed
       /\ counters.op \in {"DataProcessor.get_stats", "ThingsBoardClient.get_stats"}
             => Counters = before

\* clear_buffer was called on a buffer holding text, a span having been
\* accepted and sends having succeeded and failed
C19_Witness ==
    /\ counters.op = "clear_buffer"
    /\ counters.before.buffer # <<>>
    /\ total_parsed >= 1
    /\ total_sent >= 1
    /\ total_failed >= 1

\* the number q is 100 * a / b
IsPercentage(q, a, b) == q.den > 0 /\ q.num * b = 100 * a * q.den

\* the number q lies within 0..100
InPercent(q) == q.den > 0 /\ 0 <= q.num /\ q.num <= 100 * q.den

\* C20: parse_rate is 0 when total_received = 0 and 100 * total_parsed /
\* total_received otherwise (70 for received = 10, parsed = 7); success_rate
\* is 0 when total_sent + total_failed = 0 and 100 * total_sent / (total_sent
\* + total_failed) otherwise; no division by zero, both within 0..100.
C20_GuardedPercentages ==
    /\ stats.component = "DataProcessor" =>
          LET d == stats.dict
          IN /\ d.parse_rate # ZeroDivisionError
             /\ IF d.total_received = 0
                THEN IsPercentage(d.parse_rate, 0, 1)
                ELSE IsPercentage(d.parse_rate, d.total_parsed, d.total_received)
             /\ InPercent(d.parse_rate)
    /\ stats.component = "ThingsBoardClient" =>
          LET d == stats.dict
          IN /\ d.success_rate # ZeroDivisionError
             /\ IF d.total_sent + d.total_failed = 0
                THEN IsPercentage(d.success_rate, 0, 1)
                ELSE IsPercentage(d.success_rate, d.total_sent,
                                  d.total_sent + d.total_failed)
             /\ InPercent(d.success_rate)
    /\ LET d == DataProcessor_get_stats([buffer |-> <<>>, received |-> 10,
                                         parsed |-> 7, invalid |-> 3])
       IN d.parse_rate.num = 70 * d.parse_rate.den

\* get_stats of an extractor that accepted one span of two
C20_Witness ==
    /\ stats.component = "DataProcessor"
    /\ stats.dict.total_received = 2
    /\ stats.dict.total_parsed = 1

-----------------------------------------------------------------------------
(* Further properties of the extractor *)

IsBraceInString(text) == text = BraceInString

\* C21: an object with a "}" inside a string value is cut at that "}": the cut
\* candidate is counted invalid (one rejected span per such object) and the
\* object is never emitted, and the flat objects after it in the text are
\* emitted all the same, whatever the chunking.
C21_BraceInsideString ==
    (/\ AllFed
     /\ ~cleared
     /\ \E k \in 1..Len(doc) : IsBraceInString(doc[k])
     /\ \A k \in 1..Len(doc) :
           IsFlatRecordText(doc[k]) \/ BraceFree(doc[k]) \/ IsBraceInString(doc[k]))
    => /\ emitted = RecordsOf(SelectSeq(doc, IsFlatRecordText))
       /\ total_invalid = Len(SelectSeq(doc, IsBraceInString))
       /\ total_received = total_invalid + Len(emitted)

\* the object with the brace in its string, then a flat object, fed so that
\* the last call found text buffered and returned the flat object
C21_Witness ==
    /\ AllFed
    /\ ~cleared
    /\ Len(doc) = 2
    /\ IsBraceInString(doc[1])
    /\ IsFlatRecordText(doc[2])
    /\ call.op = "add"
    /\ call.old.buffer # <<>>
    /\ Len(call.valid_objects) = 1

-----------------------------------------------------------------------------
(* Further properties of a run *)

\* the send_telemetry calls the client got that were not for stream records
SentinelSends == total_sent + total_failed - sending.returned

\* C22: test_connection (one send of the test record) is made once, and
\* before the browser is launched; when it fails run_bridge returns False
\* with no browser launched, no login and no simulation setup.
C22_FailFastOrdering ==
    /\ SentinelSends = IF startup.connectivity = "pending" THEN 0 ELSE 1
    /\ startup.login # "pending" => startup.connectivity = "ok"
    /\ startup.connectivity = "failed" =>
          /\ pc \in {"main", "exit"}
          /\ result = "False"
          /\ startup.login = "pending"
          /\ startup.setup = "pending"
          /\ shutdown = <<>>

\* the process ended after a failed connection test
C22_Witness ==
    /\ pc = "exit"
    /\ startup.connectivity = "failed"
    /\ total_failed = 1

-----------------------------------------------------------------------------
(* The serial monitor polled while the device prints and restarts *)

MonitorPrint == DevicePrint /\ UNCHANGED <<deliveryVars, runVars, callVars>>

MonitorRestart == SimulationRestart /\ UNCHANGED <<deliveryVars, runVars, callVars>>

\* serial_monitor.get_new_content(), the read succeeding
MonitorPoll ==
    /\ Poll
    /\ LET full_text == read_serial_output(screen)
       IN track' = [op |-> "read",
                    before |-> last_text_length,
                    lastRead |-> full_text,
                    appendOnly |-> track.appendOnly /\
                                   Len(track.lastRead) <= Len(full_text) /\
                                   track.lastRead =
                                      SubSeq(full_text, 1, Len(track.lastRead)),
                    delivered |-> track.delivered \o new_content']
    /\ UNCHANGED <<deliveryVars, runVars, stats, counters>>

\* serial_monitor.get_new_content(), read_serial_output returning None
MonitorPollFailed ==
    /\ PollFailed
    /\ track' = [track EXCEPT !.op = "failed", !.before = last_text_length]
    /\ UNCHANGED <<deliveryVars, runVars, stats, counters>>

NextMonitor ==
    \/ MonitorPrint
    \/ MonitorRestart
    \/ MonitorPoll
    \/ MonitorPollFailed

SpecMonitor == InitBridge /\ [][NextMonitor]_vars

-----------------------------------------------------------------------------
(* Properties of the serial monitor *)

\* C23: while every text read began with the text read before it, the
\* strings get_new_content returned, joined, are the text last read; a read
\* that failed returned the empty string and left last_text_length alone.
C23_LosslessDelta ==
    /\ track.appendOnly => track.delivered = track.lastRead
    /\ track.op = "failed" =>
          /\ new_content = <<>>
          /\ last_text_length = track.before

\* three reads of a growing text, the last two returning new text
C23_Witness ==
    /\ track.appendOnly
    /\ track.op = "read"
    /\ total_reads = 3
    /\ new_content # <<>>
    /\ Len(track.delivered) > Len(new_content) + 1
    /\ track.before > 1

\* C24: a read of a text shorter than last_text_length returns the whole text
\* read; after every successful read last_text_length is the length of the
\* text read.
C24_ShrinkageRestart ==
    /\ (track.op = "read" /\ Len(track.lastRead) < track.before)
          => new_content = track.lastRead
    /\ total_reads >= 1 => last_text_length = Len(track.lastRead)

\* a read found a text shorter than the one read before, and not empty
C24_Witness ==
    /\ track.op = "read"
    /\ Len(track.lastRead) < track.before
    /\ track.lastRead # <<>>

-----------------------------------------------------------------------------
(* Further properties of the statistics *)

\* C25: whatever add_chunk, clear_buffer and get_stats calls were made,
\* total_received = total_parsed + total_invalid, and total_parsed is the
\* number of records all add_chunk calls returned.
C25_CounterBalance ==
    /\ total_received = total_parsed + total_invalid
    /\ total_parsed = Len(emitted)

\* a span was accepted and a span rejected, and clear_buffer and get_stats
\* were called
C25_Witness ==
    /\ total_parsed >= 1
    /\ total_invalid >= 1
    /\ cleared
    /\ stats.component = "DataProcessor"

\* C26: at every tick boundary of the loop the client's total_sent is
\* message_count plus one (the test record of test_connection), and
\* total_failed is the number of stream records whose send returned False.
C26_SentinelCounted ==
    pc = "poll" =>
       /\ total_sent = message_count + 1
       /\ total_failed = sending.returned - message_count

\* a tick has ended with one stream record sent and one refused
C26_Witness ==
    /\ pc = "poll"
    /\ sending.returned = 2
    /\ message_count = 1
    /\ total_failed = 1

\* the last n entries of a log
LastOf(log, n) == SubSeq(log, Len(log) - n + 1, Len(log))

\* C27: once the loop was entered, run_bridge returns only after
\* stop_simulation, context.close and browser.close were called, in this
\* order, however the loop was left; when stop_simulation fails, context and
\* browser are closed all the same.
C27_CleanupOnExit ==
    (pc \in {"main", "exit"} /\ startup = StartedUp) =>
       /\ cause \in {"interrupt", "exception"}
       /\ result = "True"
       /\ Len(CallsOf(shutdown)) >= 3
       /\ LastOf(CallsOf(shutdown), 3) =
             <<"automation.stop_simulation", "context.close", "browser.close">>
       /\ LastOf(shutdown, 2) = <<"context.close", "browser.close">>

\* run_bridge returned after an exception in the loop, stop_simulation having
\* failed
C27_Witness ==
    /\ pc = "main"
    /\ cause = "exception"
    /\ \E k \in 1..Len(shutdown) : ~IsCall(shutdown[k])

=============================================================================
